---- MODULE Spec2Model ----
(***************************************************************************)
(* Model of python-package/xgboost/spark/estimator.py: the parameter       *)
(* mirroring done by _set_pyspark_xgb_cls_param_attrs, the type converter  *)
(* param_value_converter, and the _validate_params guards of               *)
(* SparkXGBRegressor, SparkXGBClassifier and SparkXGBRanker.               *)
(*                                                                         *)
(* Three specifications share the variables:                               *)
(*   Spec      one estimator instance: construction, set, clear, validate  *)
(*   SpecReg   the three module-level registrations of estimator/model     *)
(*   SpecConv  param_value_converter applied to nested values              *)
(***************************************************************************)
EXTENDS Integers, Sequences, FiniteSets, TLC

VARIABLES
    cls,              \* class of the estimator instance
    paramMap,         \* self._paramMap: values set by the user
    defaultParamMap,  \* self._defaultParamMap: default values
    base_ok,          \* does super()._validate_params() pass on this state
    result,           \* outcome of the last _validate_params call
    guards,           \* guards evaluated by the last _validate_params call
    last,             \* the last operation applied to the instance
    kwObjective,      \* objective keyword given to __init__ (or Unset)
    objTouched,       \* objective was set or cleared after __init__
    qidCleared,       \* qid_col is unset because a set value was cleared
    estAttrs,         \* class attributes of the estimator classes
    modelAttrs,       \* class attributes of the model classes
    regKeys,          \* class, key sets and Params created of the last call
    registered,       \* number of module-level registration calls done
    val,              \* value handed to param_value_converter
    out               \* what param_value_converter returned for val

vars == <<cls, paramMap, defaultParamMap, base_ok, result, guards, last,
          kwObjective, objTouched, qidCleared,
          estAttrs, modelAttrs, regKeys, registered, val, out>>

estVars == <<cls, paramMap, defaultParamMap, base_ok, result, guards, last,
             kwObjective, objTouched, qidCleared>>
regVars == <<estAttrs, modelAttrs, regKeys, registered>>
convVars == <<val, out>>

(***************************************************************************)
(* Bounds of the model.                                                    *)
(***************************************************************************)
MaxDepth == 2   \* nesting depth of the values given to the converter
MaxLen == 2     \* length of the lists, tuples and dicts given to it

(***************************************************************************)
(* Python values.  A numpy scalar ("np") is an instance of np.generic that *)
(* has a Python equivalent; "npld" is a numpy scalar without one           *)
(* (np.longdouble), for which ndarray.item() returns the numpy scalar.     *)
(* A tuple stands for every value that is neither a numpy scalar, a dict   *)
(* nor a list but can hold other values.                                   *)
(***************************************************************************)
PyNone == [t |-> "none"]
Py(x) == [t |-> "py", v |-> x]
Np(x) == [t |-> "np", v |-> x]
NpLd(x) == [t |-> "npld", v |-> x]
PyList(xs) == [t |-> "list", items |-> xs]
PyTuple(xs) == [t |-> "tuple", items |-> xs]
PyDict(ks, vs) == [t |-> "dict", keys |-> ks, vals |-> vs]

IsNpGeneric(v) == v.t \in {"np", "npld"}
IsDict(v) == v.t = "dict"
IsList(v) == v.t = "list"

\* np.array(v).item() for a numpy scalar v
NpItem(v) == IF v.t = "np" THEN Py(v.v) ELSE v

\* mutant: the elements of dicts and lists are converted one level deep only
param_value_converter_shallow(v) ==
    LET one(x) == IF IsNpGeneric(x) THEN NpItem(x) ELSE x
    IN  IF IsNpGeneric(v) THEN NpItem(v)
        ELSE IF IsDict(v)
            THEN PyDict(v.keys, [i \in DOMAIN v.vals |-> one(v.vals[i])])
        ELSE IF IsList(v)
            THEN PyList([i \in DOMAIN v.items |-> one(v.items[i])])
        ELSE v

RECURSIVE param_value_converter(_)
param_value_converter(v) ==
    IF IsNpGeneric(v) THEN NpItem(v)
    ELSE IF IsDict(v)
        THEN PyDict(v.keys,
                    [i \in DOMAIN v.vals |-> param_value_converter(v.vals[i])])
    ELSE IF IsList(v)
        THEN PyList([i \in DOMAIN v.items |-> param_value_converter(v.items[i])])
    ELSE v

(***************************************************************************)
(* The parameter store of pyspark.ml.param.Params, as the estimators use   *)
(* it.  A map gives every parameter name a value or Unset.                 *)
(***************************************************************************)
Unset == [t |-> "unset"]

Classes == {"regressor", "classifier", "ranker"}
ParamNames == {"qid_col", "objective", "max_depth"}

\* parameters created by _set_pyspark_xgb_cls_param_attrs: their
\* typeConverter is param_value_converter
MirroredParams == {"objective", "max_depth"}

\* values a caller passes for each parameter
ParamValues(p) ==
    CASE p = "qid_col" -> {PyNone, Py("qid")}
      [] p = "objective" -> {PyNone, Py(""), Py("custom"), Np("custom")}
      [] p = "max_depth" -> {PyNone, Np("6")}

Kwargs == {kw \in [ParamNames -> UNION {ParamValues(p) : p \in ParamNames} \cup {Unset}] :
              \A p \in ParamNames : kw[p] \in ParamValues(p) \cup {Unset}}

NoParams == [p \in ParamNames |-> Unset]

\* bool(v) of Python
Truthy(v) ==
    CASE v.t = "none" -> FALSE
      [] v.t \in {"py", "np", "npld"} -> v.v # ""
      [] v.t \in {"list", "tuple"} -> Len(v.items) > 0
      [] v.t = "dict" -> Len(v.keys) > 0
      [] OTHER -> FALSE

isSet(pm, p) == pm[p] # Unset
hasDefault(dm, p) == dm[p] # Unset
isDefined(pm, dm, p) == isSet(pm, p) \/ hasDefault(dm, p)
getOrDefault(pm, dm, p) == IF isSet(pm, p) THEN pm[p] ELSE dm[p]

\* Param.typeConverter applied by Params._set; None is stored unconverted
TypeConverter(p, v) ==
    IF v = PyNone THEN v
    ELSE IF p \in MirroredParams THEN param_value_converter(v)
    ELSE v

set(pm, p, v) == [pm EXCEPT ![p] = TypeConverter(p, v)]
clear(pm, p) == [pm EXCEPT ![p] = Unset]
setDefault(dm, p, v) == [dm EXCEPT ![p] = TypeConverter(p, v)]

\* setParams(**kwargs): one _set per keyword given
setParams(pm, kw) ==
    [p \in ParamNames |-> IF kw[p] = Unset THEN pm[p] ELSE TypeConverter(p, kw[p])]

(***************************************************************************)
(* Construction.  _SparkXGBEstimator.__init__ leaves nothing set and gives *)
(* the native constructor's defaults to the mirrored parameters; qid_col   *)
(* has no default.                                                         *)
(***************************************************************************)
NativeObjective == Py("native")

EstimatorInit ==
    [pm |-> NoParams,
     dm |-> [p \in ParamNames |->
                CASE p = "objective" -> NativeObjective
                  [] p = "max_depth" -> PyNone
                  [] OTHER -> Unset]]

SparkXGBRegressor_init(kw) ==
    [pm |-> setParams(EstimatorInit.pm, kw), dm |-> EstimatorInit.dm]

\* mutant: the classifier keeps the native default objective
SparkXGBClassifier_init_nodefault(kw) ==
    [pm |-> setParams(EstimatorInit.pm, kw), dm |-> EstimatorInit.dm]

SparkXGBClassifier_init(kw) ==
    [pm |-> setParams(EstimatorInit.pm, kw),
     dm |-> setDefault(EstimatorInit.dm, "objective", PyNone)]

SparkXGBRanker_init(kw) ==
    [pm |-> setParams(EstimatorInit.pm, kw), dm |-> EstimatorInit.dm]

Construct(c, kw) ==
    CASE c = "regressor" -> SparkXGBRegressor_init(kw)
      [] c = "classifier" -> SparkXGBClassifier_init(kw)
      [] c = "ranker" -> SparkXGBRanker_init(kw)

(***************************************************************************)
(* _validate_params.  An outcome is "ok" (the call returned) or the error  *)
(* raised; guards lists the guards evaluated, in order.                    *)
(***************************************************************************)
Outcome(o, g) == [outcome |-> o, guards |-> g]

\* mutant: the regressor's guard is missing
RegressorGuard_absent(pm, dm) == Outcome("ok", <<"qid_col">>)

\* mutant: the regressor also rejects an objective, as the classifier does
RegressorGuard_objective(pm, dm) ==
    IF isDefined(pm, dm, "qid_col")
        THEN Outcome("qid_error", <<"qid_col">>)
    ELSE IF Truthy(getOrDefault(pm, dm, "objective"))
        THEN Outcome("objective_error", <<"qid_col", "objective">>)
    ELSE Outcome("ok", <<"qid_col", "objective">>)

\* the guards after super()._validate_params() in each subtype
RegressorGuard(pm, dm) ==
    IF isDefined(pm, dm, "qid_col")
        THEN Outcome("qid_error", <<"qid_col">>)
        ELSE Outcome("ok", <<"qid_col">>)

\* mutant: the classifier's qid_col guard tests the value, not the definedness
ClassifierGuard_qidvalue(pm, dm) ==
    IF isDefined(pm, dm, "qid_col") /\ Truthy(getOrDefault(pm, dm, "qid_col"))
        THEN Outcome("qid_error", <<"qid_col">>)
    ELSE IF Truthy(getOrDefault(pm, dm, "objective"))
        THEN Outcome("objective_error", <<"qid_col", "objective">>)
    ELSE Outcome("ok", <<"qid_col", "objective">>)

\* mutant: the objective guard tests "is not None" instead of truthiness
ClassifierGuard_isnotnone(pm, dm) ==
    IF isDefined(pm, dm, "qid_col")
        THEN Outcome("qid_error", <<"qid_col">>)
    ELSE IF getOrDefault(pm, dm, "objective") # PyNone
        THEN Outcome("objective_error", <<"qid_col", "objective">>)
    ELSE Outcome("ok", <<"qid_col", "objective">>)

\* mutant: the objective guard comes before the qid_col guard
ClassifierGuard_swapped(pm, dm) ==
    IF Truthy(getOrDefault(pm, dm, "objective"))
        THEN Outcome("objective_error", <<"objective">>)
    ELSE IF isDefined(pm, dm, "qid_col")
        THEN Outcome("qid_error", <<"objective", "qid_col">>)
    ELSE Outcome("ok", <<"objective", "qid_col">>)

\* getOrDefault raises KeyError for a parameter that is not defined
ClassifierGuard(pm, dm) ==
    IF isDefined(pm, dm, "qid_col")
        THEN Outcome("qid_error", <<"qid_col">>)
    ELSE IF ~isDefined(pm, dm, "objective")
        THEN Outcome("key_error", <<"qid_col", "objective">>)
    ELSE IF Truthy(getOrDefault(pm, dm, "objective"))
        THEN Outcome("objective_error", <<"qid_col", "objective">>)
    ELSE Outcome("ok", <<"qid_col", "objective">>)

\* mutant: the ranker's guard has the regressor's polarity
RankerGuard_inverted(pm, dm) ==
    IF isDefined(pm, dm, "qid_col")
        THEN Outcome("qid_error", <<"qid_col">>)
        ELSE Outcome("ok", <<"qid_col">>)

RankerGuard(pm, dm) ==
    IF ~isDefined(pm, dm, "qid_col")
        THEN Outcome("qid_error", <<"qid_col">>)
        ELSE Outcome("ok", <<"qid_col">>)

SubtypeGuard(c, pm, dm) ==
    CASE c = "regressor" -> RegressorGuard(pm, dm)
      [] c = "classifier" -> ClassifierGuard(pm, dm)
      [] c = "ranker" -> RankerGuard(pm, dm)

\* super()._validate_params() first, then the subtype's guards
validate_params(c, pm, dm, bok) ==
    IF ~bok THEN Outcome("base_error", <<"base">>)
    ELSE LET g == SubtypeGuard(c, pm, dm)
         IN  Outcome(g.outcome, <<"base">> \o g.guards)

Raised(o) == o # "ok"
ValueErrors == {"qid_error", "objective_error"}

(***************************************************************************)
(* Specification Spec: one estimator instance.  The state after            *)
(* construction with any class and any keyword arguments, then set, clear  *)
(* and _validate_params in any order.  What super()._validate_params()     *)
(* decides is open: it is a predicate of the parameter state, so it is     *)
(* chosen anew whenever a parameter changes and is fixed in between.       *)
(***************************************************************************)
NoAttrs == <<>>
Op(o, p) == [op |-> o, param |-> p]

RegIdle == estAttrs = NoAttrs /\ modelAttrs = NoAttrs /\ regKeys = NoAttrs /\ registered = 0
ConvIdle == val = Unset /\ out = Unset

Init ==
    /\ \E c \in Classes, kw \in Kwargs :
          /\ cls = c
          /\ paramMap = Construct(c, kw).pm
          /\ defaultParamMap = Construct(c, kw).dm
          /\ kwObjective = kw["objective"]
    /\ base_ok \in BOOLEAN
    /\ result = "none"
    /\ guards = <<>>
    /\ last = Op("init", "-")
    /\ objTouched = FALSE
    /\ qidCleared = FALSE
    /\ RegIdle
    /\ ConvIdle

\* est.set(est.<p>, v)
Set(p, v) ==
    /\ paramMap' = set(paramMap, p, v)
    /\ base_ok' \in BOOLEAN
    /\ result' = "none"
    /\ guards' = <<>>
    /\ last' = Op("set", p)
    /\ objTouched' = (objTouched \/ p = "objective")
    /\ qidCleared' = (qidCleared /\ p # "qid_col")
    /\ UNCHANGED <<cls, defaultParamMap, kwObjective, regVars, convVars>>

\* est.clear(est.<p>)
Clear(p) ==
    /\ paramMap' = clear(paramMap, p)
    /\ base_ok' \in BOOLEAN
    /\ result' = "none"
    /\ guards' = <<>>
    /\ last' = Op("clear", p)
    /\ objTouched' = (objTouched \/ p = "objective")
    /\ qidCleared' = IF p = "qid_col" THEN isSet(paramMap, p) \/ qidCleared
                                      ELSE qidCleared
    /\ UNCHANGED <<cls, defaultParamMap, kwObjective, regVars, convVars>>

\* a _validate_params call with outcome r: it assigns nothing on self
Returned(r) ==
    /\ result' = r.outcome
    /\ guards' = r.guards
    /\ last' = Op("validate", "-")
    /\ UNCHANGED <<cls, paramMap, defaultParamMap, base_ok,
                   kwObjective, objTouched, qidCleared, regVars, convVars>>

\* mutant: the regressor drops the forbidden qid_col before it raises
SparkXGBRegressor_validate_recover ==
    /\ cls = "regressor"
    /\ LET r == validate_params(cls, paramMap, defaultParamMap, base_ok)
       IN  /\ result' = r.outcome
           /\ guards' = r.guards
           /\ paramMap' = IF r.outcome = "qid_error" THEN clear(paramMap, "qid_col")
                                                     ELSE paramMap
    /\ last' = Op("validate", "-")
    /\ UNCHANGED <<cls, defaultParamMap, base_ok,
                   kwObjective, objTouched, qidCleared, regVars, convVars>>

SparkXGBRegressor_validate_params ==
    /\ cls = "regressor"
    /\ Returned(validate_params(cls, paramMap, defaultParamMap, base_ok))

SparkXGBClassifier_validate_params ==
    /\ cls = "classifier"
    /\ Returned(validate_params(cls, paramMap, defaultParamMap, base_ok))

SparkXGBRanker_validate_params ==
    /\ cls = "ranker"
    /\ Returned(validate_params(cls, paramMap, defaultParamMap, base_ok))

SetParam == \E p \in ParamNames : \E v \in ParamValues(p) : Set(p, v)
ClearParam == \E p \in ParamNames : Clear(p)

Next ==
    \/ SetParam
    \/ ClearParam
    \/ SparkXGBRegressor_validate_params
    \/ SparkXGBClassifier_validate_params
    \/ SparkXGBRanker_validate_params

Spec == Init /\ [][Next]_vars

TypeOK ==
    /\ cls \in Classes
    /\ base_ok \in BOOLEAN
    /\ result \in {"none", "ok", "base_error", "qid_error", "objective_error", "key_error"}
    /\ last.op \in {"init", "set", "clear", "validate"}

(***************************************************************************)
(* Properties of the validation guards, checked under Spec.                *)
(***************************************************************************)
JustValidated == last.op = "validate"
QidDefined == isDefined(paramMap, defaultParamMap, "qid_col")
Objective == getOrDefault(paramMap, defaultParamMap, "objective")

\* C1: on a SparkXGBRanker whose base-class validation passes, after any
\* sets and clears, _validate_params raises the qid_col ValueError exactly
\* when qid_col is not defined, and returns otherwise.
C1_RankerRequiresQid ==
    (cls = "ranker" /\ JustValidated /\ base_ok) =>
        /\ (result \in ValueErrors) <=> ~QidDefined
        /\ result = (IF QidDefined THEN "ok" ELSE "qid_error")

C1_Witness ==
    /\ cls = "ranker" /\ JustValidated /\ base_ok
    /\ qidCleared /\ ~QidDefined /\ result = "qid_error"

\* C2: on a SparkXGBRegressor whose base-class validation passes, after any
\* sets and clears, _validate_params raises the qid_col ValueError exactly
\* when qid_col is defined; once a set qid_col is cleared it returns again.
C2_RegressorForbidsQid ==
    (cls = "regressor" /\ JustValidated /\ base_ok) =>
        /\ (result \in ValueErrors) <=> QidDefined
        /\ result = (IF QidDefined THEN "qid_error" ELSE "ok")
        /\ (qidCleared /\ ~isSet(paramMap, "qid_col")) => result = "ok"

C2_Witness ==
    /\ cls = "regressor" /\ JustValidated /\ base_ok
    /\ qidCleared /\ ~QidDefined /\ result = "ok"

\* C3: on a SparkXGBClassifier with qid_col defined, _validate_params never
\* returns, whatever the other parameters are; when the base-class
\* validation passes the error is the qid_col ValueError.
C3_ClassifierForbidsQid ==
    (cls = "classifier" /\ JustValidated /\ QidDefined) =>
        /\ Raised(result)
        /\ base_ok => result = "qid_error"

C3_Witness ==
    /\ cls = "classifier" /\ JustValidated /\ QidDefined /\ base_ok
    /\ paramMap["qid_col"] = PyNone
    /\ ~isSet(paramMap, "objective") /\ isSet(paramMap, "max_depth")
    /\ result = "qid_error"

\* C4 as stated: on a SparkXGBClassifier whose objective has been set
\* explicitly, to any value, _validate_params raises.
C4_AnyExplicitObjectiveRaises ==
    (cls = "classifier" /\ JustValidated /\ isSet(paramMap, "objective")) =>
        Raised(result)

\* C4 (amended): on a SparkXGBClassifier whose objective has been set
\* explicitly, _validate_params raises exactly when the base-class validation
\* fails, qid_col is defined or the value set is truthy; with a truthy value,
\* a passing base-class validation and no qid_col the error is the objective
\* ValueError, and an objective set to None or to the empty string alone
\* does not make validation raise.
C4_TruthyObjectiveRaises ==
    (cls = "classifier" /\ JustValidated /\ isSet(paramMap, "objective")) =>
        /\ Raised(result) <=> (~base_ok \/ QidDefined \/ Truthy(paramMap["objective"]))
        /\ (base_ok /\ ~QidDefined /\ Truthy(paramMap["objective"]))
              => result = "objective_error"

C4_Witness ==
    /\ cls = "classifier" /\ JustValidated /\ base_ok /\ ~QidDefined
    /\ isSet(paramMap, "objective") /\ Truthy(paramMap["objective"])
    /\ result = "objective_error"

\* every parameter map a sequence of sets and clears can produce
ParamMaps ==
    {pm \in [ParamNames -> UNION {ParamValues(p) : p \in ParamNames}
                              \cup {Py("6"), Unset}] :
        \A p \in ParamNames :
            pm[p] \in {TypeConverter(p, v) : v \in ParamValues(p)} \cup {Unset}}

GuardOutcome(c, pm, dm) == SubtypeGuard(c, pm, dm).outcome

\* C6: the subtype guard of the regressor and of the ranker gives the same
\* outcome on any two parameter states that agree on whether qid_col is
\* defined, the classifier's on any two that also agree on the effective
\* objective; setting objective to any value on a regressor or a ranker
\* leaves the outcome of its guard as it was.
C6_FreelySettable ==
    /\ \A pm \in ParamMaps :
          ( /\ isDefined(pm, defaultParamMap, "qid_col") <=> QidDefined
            /\ cls = "classifier" =>
                  getOrDefault(pm, defaultParamMap, "objective") = Objective )
          => GuardOutcome(cls, pm, defaultParamMap)
                = GuardOutcome(cls, paramMap, defaultParamMap)
    /\ cls \in {"regressor", "ranker"} =>
          \A v \in ParamValues("objective") :
              GuardOutcome(cls, set(paramMap, "objective", v), defaultParamMap)
                = GuardOutcome(cls, paramMap, defaultParamMap)
    /\ (cls \in {"regressor", "ranker"} /\ JustValidated) =>
          result # "objective_error"

C6_Witness ==
    /\ cls = "regressor" /\ JustValidated /\ base_ok
    /\ isSet(paramMap, "objective") /\ Truthy(paramMap["objective"])
    /\ isSet(paramMap, "max_depth")
    /\ result = "ok"

\* C7: a _validate_params call, returning or raising, leaves the values set
\* and the defaults as they were, and a second call on the unchanged state
\* has the outcome of the first.
C7_ValidationChangesNothing ==
    [][ last'.op = "validate" =>
          /\ paramMap' = paramMap
          /\ defaultParamMap' = defaultParamMap
          /\ JustValidated => (result' = result /\ guards' = guards) ]_vars

C7_Witness ==
    /\ cls = "regressor" /\ JustValidated /\ result = "qid_error"
    /\ isSet(paramMap, "qid_col")

\* C8: a SparkXGBClassifier has the default objective None; constructed
\* without an objective keyword its effective objective is None and the
\* objective guard does not raise; an objective keyword is the effective
\* objective until objective is set or cleared, also at validation; after
\* objective is cleared the effective objective is None again.
C8_ClassifierDefaultObjective ==
    cls = "classifier" =>
        /\ defaultParamMap["objective"] = PyNone
        /\ (kwObjective = Unset /\ ~objTouched) =>
              /\ Objective = PyNone
              /\ GuardOutcome(cls, paramMap, defaultParamMap) # "objective_error"
              /\ JustValidated => result # "objective_error"
        /\ (kwObjective # Unset /\ ~objTouched) =>
              /\ Objective = TypeConverter("objective", kwObjective)
              /\ (JustValidated /\ base_ok /\ ~QidDefined) =>
                    result = (IF Truthy(kwObjective) THEN "objective_error" ELSE "ok")
        /\ last = Op("clear", "objective") => Objective = PyNone

C8_Witness ==
    /\ cls = "classifier" /\ JustValidated /\ base_ok /\ ~QidDefined
    /\ kwObjective = Unset /\ ~objTouched /\ result = "ok"

\* C9: the base-class validation runs first and its failure is the outcome,
\* no subtype guard being evaluated; in the classifier the qid_col guard runs
\* before the objective guard, so with qid_col defined and a custom objective
\* set the error is the qid_col error and the objective guard is not reached.
C9_GuardOrder ==
    JustValidated =>
        /\ guards # <<>> /\ guards[1] = "base"
        /\ ~base_ok => (result = "base_error" /\ guards = <<"base">>)
        /\ (cls = "classifier" /\ base_ok /\ QidDefined /\ Truthy(Objective)) =>
              (result = "qid_error" /\ guards = <<"base", "qid_col">>)
        /\ (cls = "classifier" /\ base_ok /\ ~QidDefined) =>
              guards = <<"base", "qid_col", "objective">>

C9_Witness ==
    /\ cls = "classifier" /\ JustValidated /\ base_ok /\ QidDefined
    /\ isSet(paramMap, "objective") /\ Truthy(Objective)
    /\ result = "qid_error"

(***************************************************************************)
(* Specification SpecReg: the module-level calls of                        *)
(* _set_pyspark_xgb_cls_param_attrs, for the regressor, the classifier and *)
(* the ranker pair in that order.  The key sets of the three default       *)
(* dictionaries are inputs of each call; a dictionary is iterated in the   *)
(* order of NameOrder.  A Param object is a record; its id, the call, loop *)
(* and name it was created for, is its identity.                           *)
(***************************************************************************)
RegNames == {"objective", "callbacks"}
NameOrder == <<"objective", "callbacks">>
RegOrder == <<"regressor", "classifier", "ranker">>

NoParam == [t |-> "absent"]

\* the doc string built for a parameter of the "ctor", "fit" or "predict"
\* dictionary; the fit doc of callbacks gets the cloudpickle note
Doc(kind, c, name) ==
    [kind |-> kind, xgb_cls |-> c, name |-> name,
     note |-> (kind = "fit" /\ name = "callbacks")]

\* Param(Params._dummy(), name=name, doc=doc)
Param(id, name, doc) ==
    [t |-> "Param", id |-> id, name |-> name, doc |-> doc,
     typeConverter |-> "identity"]

\* mutant: the parameter is attached to the estimator only
set_param_attrs_estimator_only(st, attr_name, param) ==
    LET p == [param EXCEPT !.typeConverter = "param_value_converter"]
    IN  [st EXCEPT !.est[attr_name] = p]

\* st holds the attributes of the estimator class and of the model class
set_param_attrs(st, attr_name, param) ==
    LET p == [param EXCEPT !.typeConverter = "param_value_converter"]
    IN  [st EXCEPT !.est[attr_name] = p, !.model[attr_name] = p]

KeysOf(S) == SelectSeq(NameOrder, LAMBDA n : n \in S)

\* one of the three loops: a new Param per name, attached to both classes
RECURSIVE MirrorLoop(_, _, _, _)
MirrorLoop(st, names, kind, c) ==
    IF names = <<>> THEN st
    ELSE LET name == Head(names)
             param_obj == Param(<<c, kind, name>>, name, Doc(kind, c, name))
             st1 == set_param_attrs(st, name, param_obj)
         IN  MirrorLoop([st1 EXCEPT !.created = Append(st.created, param_obj.id)],
                        Tail(names), kind, c)

\* mutant: the predict defaults are processed first, the constructor's last
MirrorAll_reversed(st, c, keys) ==
    LET st1 == MirrorLoop(st, KeysOf(keys.predict), "predict", c)
        st2 == MirrorLoop(st1, KeysOf(keys.fit), "fit", c)
    IN  MirrorLoop(st2, KeysOf(keys.xgb), "ctor", c)

\* st.created lists the Param objects in the order of their creation
MirrorAll(st, c, keys) ==
    LET st1 == MirrorLoop(st, KeysOf(keys.xgb), "ctor", c)
        st2 == MirrorLoop(st1, KeysOf(keys.fit), "fit", c)
    IN  MirrorLoop(st2, KeysOf(keys.predict), "predict", c)

Registered(c) == \E i \in 1..registered : RegOrder[i] = c

\* _set_pyspark_xgb_cls_param_attrs(estimator, model) for the pair of class c
set_pyspark_xgb_cls_param_attrs(c, keys) ==
    /\ registered < Len(RegOrder)
    /\ c = RegOrder[registered + 1]
    /\ LET st == MirrorAll([est |-> estAttrs[c], model |-> modelAttrs[c],
                            created |-> <<>>], c, keys)
       IN  /\ estAttrs' = [estAttrs EXCEPT ![c] = st.est]
           /\ modelAttrs' = [modelAttrs EXCEPT ![c] = st.model]
           /\ regKeys' = [cls |-> c, xgb |-> keys.xgb, fit |-> keys.fit,
                          predict |-> keys.predict, created |-> st.created]
    /\ registered' = registered + 1
    /\ UNCHANGED <<estVars, convVars>>

KeySets == [xgb : SUBSET RegNames, fit : SUBSET RegNames, predict : SUBSET RegNames]

RegisterPair ==
    \E c \in Classes, keys \in KeySets : set_pyspark_xgb_cls_param_attrs(c, keys)

EstIdle ==
    /\ cls = "-" /\ paramMap = NoParams /\ defaultParamMap = NoParams
    /\ base_ok = TRUE /\ result = "none" /\ guards = <<>>
    /\ last = Op("init", "-") /\ kwObjective = Unset
    /\ objTouched = FALSE /\ qidCleared = FALSE

InitReg ==
    /\ estAttrs = [c \in Classes |-> [n \in RegNames |-> NoParam]]
    /\ modelAttrs = [c \in Classes |-> [n \in RegNames |-> NoParam]]
    /\ regKeys = Unset
    /\ registered = 0
    /\ EstIdle
    /\ ConvIdle

NextReg == RegisterPair

SpecReg == InitReg /\ [][NextReg]_vars

AllKeys == regKeys.xgb \cup regKeys.fit \cup regKeys.predict

\* C5: when _set_pyspark_xgb_cls_param_attrs has returned for a pair, every
\* name in the union of the key sets of the three default dictionaries is an
\* attribute of the estimator class and of the model class, the attribute is
\* a Param whose name is the attribute name, and both classes hold the same
\* Param object.
C5_MirroredOnBoth ==
    regKeys # Unset =>
        \A n \in AllKeys :
            /\ estAttrs[regKeys.cls][n] # NoParam
            /\ modelAttrs[regKeys.cls][n] # NoParam
            /\ estAttrs[regKeys.cls][n].t = "Param"
            /\ modelAttrs[regKeys.cls][n].t = "Param"
            /\ estAttrs[regKeys.cls][n].name = n
            /\ modelAttrs[regKeys.cls][n].name = n
            /\ estAttrs[regKeys.cls][n].id = modelAttrs[regKeys.cls][n].id
            /\ estAttrs[regKeys.cls][n] = modelAttrs[regKeys.cls][n]

C5_Witness ==
    /\ registered = 2
    /\ regKeys # Unset /\ regKeys.cls = "classifier"
    /\ regKeys.xgb = {"objective"} /\ regKeys.fit = RegNames /\ regKeys.predict = {}
    /\ modelAttrs["classifier"]["callbacks"] # NoParam
    /\ modelAttrs["classifier"]["callbacks"].doc.note
    /\ estAttrs["classifier"]["objective"] # NoParam
    /\ estAttrs["classifier"]["objective"].doc.kind = "fit"

\* the dictionary whose Param a name ends up with: the last one holding it
SurvivingKind(n) ==
    IF n \in regKeys.predict THEN "predict"
    ELSE IF n \in regKeys.fit THEN "fit"
    ELSE IF n \in regKeys.xgb THEN "ctor"
    ELSE "none"

LoopRank(kind) == CASE kind = "ctor" -> 1 [] kind = "fit" -> 2 [] kind = "predict" -> 3

\* what holds when a registration call has returned
C11_AfterCall ==
    /\ regKeys # Unset =>
          /\ Len(regKeys.created) = Cardinality(regKeys.xgb)
                + Cardinality(regKeys.fit) + Cardinality(regKeys.predict)
          /\ \A i, j \in DOMAIN regKeys.created :
                i < j => LoopRank(regKeys.created[i][2]) <= LoopRank(regKeys.created[j][2])
          /\ \A n \in RegNames :
                IF SurvivingKind(n) = "none"
                    THEN /\ estAttrs[regKeys.cls][n] = NoParam
                         /\ modelAttrs[regKeys.cls][n] = NoParam
                    ELSE /\ estAttrs[regKeys.cls][n].id
                               = <<regKeys.cls, SurvivingKind(n), n>>
                         /\ modelAttrs[regKeys.cls][n].id
                               = <<regKeys.cls, SurvivingKind(n), n>>
                         /\ estAttrs[regKeys.cls][n].doc.kind = SurvivingKind(n)
    /\ \A c \in Classes, n \in RegNames : estAttrs[c][n] = modelAttrs[c][n]

\* a registration call writes the attributes of its own pair only
C11_OtherPairsKept ==
    registered' = registered + 1 =>
        \A c \in Classes :
            c # regKeys'.cls =>
                (estAttrs'[c] = estAttrs[c] /\ modelAttrs'[c] = modelAttrs[c])

\* C11: a registration call creates the Params of the constructor defaults,
\* then of the fit defaults, then of the predict defaults, one per name and
\* dictionary; a name of several dictionaries ends up, on the estimator and
\* on the model, with the Param created last (predict over fit over
\* constructor); the estimator and the model of a pair never hold different
\* Params for a name; and the call leaves the attributes of the other pairs
\* unchanged.
C11_LastDescriptorSurvives ==
    /\ []C11_AfterCall
    /\ [][C11_OtherPairsKept]_vars

C11_Witness ==
    /\ registered = 3
    /\ regKeys # Unset /\ regKeys.cls = "ranker"
    /\ regKeys.xgb = RegNames /\ regKeys.fit = RegNames
    /\ regKeys.predict = {"objective"}
    /\ estAttrs["ranker"]["objective"].id = <<"ranker", "predict", "objective">>
    /\ modelAttrs["ranker"]["callbacks"].id = <<"ranker", "fit", "callbacks">>
    /\ estAttrs["regressor"]["objective"] # NoParam
    /\ estAttrs["regressor"]["objective"].doc.xgb_cls = "regressor"
    /\ estAttrs["classifier"]["callbacks"] # NoParam

(***************************************************************************)
(* Specification SpecConv: param_value_converter applied to nested values. *)
(* A value is built from a scalar by wrapping it in a list, a tuple or a   *)
(* dict and by adding scalar elements, up to MaxDepth levels of at most    *)
(* MaxLen elements; Convert applies the converter to the value built.      *)
(***************************************************************************)
Scalars == {PyNone, Py("a"), Np("a"), NpLd("a")}
ItemScalars == {PyNone, Np("a"), NpLd("a")}
DictKeys == {Py("k"), Np("k")}

IsScalar(v) == v.t \in {"none", "py", "np", "npld"}
IsContainer(v) == v.t \in {"list", "tuple", "dict"}
Elements(v) == IF IsDict(v) THEN v.vals ELSE v.items

RECURSIVE Depth(_)
Depth(v) ==
    IF ~IsContainer(v) THEN 0
    ELSE LET ds == {Depth(Elements(v)[i]) : i \in DOMAIN Elements(v)}
         IN  1 + (IF ds = {} THEN 0 ELSE CHOOSE d \in ds : \A e \in ds : e <= d)

InitConv ==
    /\ val \in Scalars
    /\ out = Unset
    /\ EstIdle
    /\ RegIdle

WrapList ==
    /\ Depth(val) < MaxDepth
    /\ val' = PyList(<<val>>)
    /\ out' = Unset
    /\ UNCHANGED <<estVars, regVars>>

WrapTuple ==
    /\ Depth(val) < MaxDepth
    /\ val' = PyTuple(<<val>>)
    /\ out' = Unset
    /\ UNCHANGED <<estVars, regVars>>

WrapDict ==
    /\ Depth(val) < MaxDepth
    /\ \E k \in DictKeys : val' = PyDict(<<k>>, <<val>>)
    /\ out' = Unset
    /\ UNCHANGED <<estVars, regVars>>

AppendItem ==
    /\ val.t \in {"list", "tuple"}
    /\ Len(val.items) < MaxLen
    /\ \E s \in ItemScalars : val' = [val EXCEPT !.items = Append(@, s)]
    /\ out' = Unset
    /\ UNCHANGED <<estVars, regVars>>

PutItem ==
    /\ IsDict(val)
    /\ Len(val.keys) < MaxLen
    /\ \E k \in DictKeys, s \in ItemScalars :
          /\ \A i \in DOMAIN val.keys : val.keys[i] # k
          /\ val' = [val EXCEPT !.keys = Append(@, k), !.vals = Append(@, s)]
    /\ out' = Unset
    /\ UNCHANGED <<estVars, regVars>>

\* param.typeConverter(val)
Convert ==
    /\ out = Unset
    /\ out' = param_value_converter(val)
    /\ UNCHANGED <<val, estVars, regVars>>

NextConv ==
    \/ WrapList
    \/ WrapTuple
    \/ WrapDict
    \/ AppendItem
    \/ PutItem
    \/ Convert

SpecConv == InitConv /\ [][NextConv]_vars

\* built from scalars, dicts and lists only
RECURSIVE OnlyScalarsDictsLists(_)
OnlyScalarsDictsLists(v) ==
    \/ IsScalar(v)
    \/ /\ v.t \in {"list", "dict"}
       /\ \A i \in DOMAIN Elements(v) : OnlyScalarsDictsLists(Elements(v)[i])

\* a numpy scalar occurs in v, as the value, an element or a dict key
RECURSIVE HasNumpy(_)
HasNumpy(v) ==
    \/ IsNpGeneric(v)
    \/ /\ IsDict(v)
       /\ \E i \in DOMAIN v.keys : IsNpGeneric(v.keys[i])
    \/ /\ IsContainer(v)
       /\ \E i \in DOMAIN Elements(v) : HasNumpy(Elements(v)[i])

\* a numpy scalar occurs in v as the value or an element, dict keys aside
RECURSIVE HasNumpyValue(_)
HasNumpyValue(v) ==
    \/ IsNpGeneric(v)
    \/ /\ IsContainer(v)
       /\ \E i \in DOMAIN Elements(v) : HasNumpyValue(Elements(v)[i])

\* a numpy scalar without Python equivalent occurs in v as value or element
RECURSIVE HasLongDouble(_)
HasLongDouble(v) ==
    \/ v.t = "npld"
    \/ /\ IsContainer(v)
       /\ \E i \in DOMAIN Elements(v) : HasLongDouble(Elements(v)[i])

\* w has the dict keys, the lengths and the element order of v; numpy
\* scalars of v are their Python scalars in w, and what is neither a numpy
\* scalar, a dict nor a list is the same in both
RECURSIVE SameShape(_, _)
SameShape(v, w) ==
    IF IsNpGeneric(v) THEN w = NpItem(v)
    ELSE IF v.t \in {"list", "dict"}
        THEN /\ w.t = v.t
             /\ IsDict(v) => w.keys = v.keys
             /\ Len(Elements(w)) = Len(Elements(v))
             /\ \A i \in DOMAIN Elements(v) : SameShape(Elements(v)[i], Elements(w)[i])
    ELSE w = v

Converted == out # Unset

\* C10 as stated, for numpy scalars that have a Python equivalent: the result
\* holds no numpy scalar whenever the input is built from scalars, dicts and
\* lists only; dict keys, lengths and order are kept; any other value is
\* returned unchanged; converting is idempotent.
C10_NoNumpyLeft ==
    Converted =>
        /\ (OnlyScalarsDictsLists(val) /\ ~HasLongDouble(val)) => ~HasNumpy(out)
        /\ SameShape(val, out)
        /\ (~IsNpGeneric(val) /\ ~IsDict(val) /\ ~IsList(val)) => out = val
        /\ param_value_converter(out) = out

\* C10 (amended): when the input is built from scalars, dicts and lists only
\* and holds no numpy scalar without Python equivalent, the result holds no
\* numpy scalar as a value or element at any depth, while dict keys are kept
\* as they are, numpy scalars included; dict keys, lengths and order are
\* kept; any other value is returned unchanged; converting is idempotent.
C10_Converter ==
    Converted =>
        /\ (OnlyScalarsDictsLists(val) /\ ~HasLongDouble(val)) => ~HasNumpyValue(out)
        /\ SameShape(val, out)
        /\ (~IsNpGeneric(val) /\ ~IsDict(val) /\ ~IsList(val)) => out = val
        /\ param_value_converter(out) = out

C10_Witness ==
    /\ Converted
    /\ OnlyScalarsDictsLists(val) /\ ~HasLongDouble(val)
    /\ Depth(val) = MaxDepth
    /\ IsDict(val) /\ Len(val.keys) = 2
    /\ IsList(val.vals[1]) /\ Len(val.vals[1].items) = 2
    /\ val.vals[1].items[1] = Np("a") /\ val.vals[1].items[2] = PyNone
    /\ HasNumpyValue(val) /\ out # val

====
